---- MODULE Spec2Model ----
(***************************************************************************)
(* A model of the wiki generator: the structural extractor                 *)
(* (code_analyzer.py), the directory walker, the summary projector          *)
(* (llm_manager.py) and the generate_wiki pipeline                          *)
(* (code_wiki_generator.py).                                                *)
(*                                                                          *)
(* File text is a sequence of lexemes (words, blanks, newlines and          *)
(* punctuation), each a string; a regular expression is matched lexeme by   *)
(* lexeme with Python's leftmost, greedy, backtracking semantics.  The      *)
(* patterns of the source have no word-boundary anchors and every literal   *)
(* they hold is a whole lexeme of the vocabulary, so matching on lexemes    *)
(* agrees with matching on characters for the texts considered.             *)
(***************************************************************************)
EXTENDS Integers, Sequences, FiniteSets, TLC

(***************************************************************************)
(* Bounds of the model.                                                     *)
(***************************************************************************)
MaxLines == 2

(***************************************************************************)
(* Lexemes.                                                                 *)
(***************************************************************************)
NL == "\n"

Space == {" ", NL}

NonWord ==
    Space \cup {"(", ")", "{", ",", ":", ";", "=", "=>", "'", "\"", "//", "#", "/*", "*/"}

IsWord(t) == t \notin NonWord

RECURSIVE Join(_)
Join(toks) == IF toks = <<>> THEN "" ELSE Head(toks) \o Join(Tail(toks))

SetMax(S) == CHOOSE x \in S : \A y \in S : y <= x

(***************************************************************************)
(* Regular expressions.  A pattern is a sequence of elements                *)
(* [kind, toks, q]: kind "lit" matches a lexeme of toks, "not" a lexeme     *)
(* outside toks, "w" a word (\w), "s" white space (\s); q is "1", "+" or    *)
(* "*".                                                                     *)
(***************************************************************************)
Lit(S) == [kind |-> "lit", toks |-> S, q |-> "1"]
Ws(q) == [kind |-> "s", toks |-> {}, q |-> q]
Word == [kind |-> "w", toks |-> {}, q |-> "+"]
Not(S, q) == [kind |-> "not", toks |-> S, q |-> q]
NotRP == Not({")"}, "*")

Accepts(e, t) ==
    CASE e.kind = "lit" -> t \in e.toks
      [] e.kind = "not" -> t \notin e.toks
      [] e.kind = "w" -> IsWord(t)
      [] e.kind = "s" -> t \in Space

\* The length of the longest run of lexemes from pos that element e accepts.
RECURSIVE Run(_, _, _)
Run(e, text, pos) ==
    IF pos <= Len(text) /\ Accepts(e, text[pos])
    THEN 1 + Run(e, text, pos + 1)
    ELSE 0

\* The boundaries <<b_k, ..., b_n, end>> of the elements k..n of pat matched
\* from pos, greedy with backtracking, or <<>> when there is no match.
RECURSIVE MatchFrom(_, _, _, _)
MatchFrom(pat, k, text, pos) ==
    IF k > Len(pat) THEN <<pos>>
    ELSE LET e == pat[k]
             run == Run(e, text, pos)
             lo == IF e.q = "*" THEN 0 ELSE 1
             hi == IF e.q = "1" THEN (IF run >= 1 THEN 1 ELSE 0) ELSE run
             ok == {n \in lo..hi : MatchFrom(pat, k + 1, text, pos + n) # <<>>}
         IN  IF ok = {} THEN <<>>
             ELSE <<pos>> \o MatchFrom(pat, k + 1, text, pos + SetMax(ok))

\* A regex is a sequence of alternative patterns, tried in order at pos:
\* [alt, b], alt = 0 when none matches.
RECURSIVE MatchAlt(_, _, _, _)
MatchAlt(regex, a, text, pos) ==
    IF a > Len(regex) THEN [alt |-> 0, b |-> <<>>]
    ELSE LET b == MatchFrom(regex[a], 1, text, pos)
         IN  IF b # <<>> THEN [alt |-> a, b |-> b]
             ELSE MatchAlt(regex, a + 1, text, pos)

\* re.finditer: the non-overlapping matches, leftmost first.
RECURSIVE FindIter(_, _, _)
FindIter(regex, text, pos) ==
    IF pos > Len(text) THEN <<>>
    ELSE LET m == MatchAlt(regex, 1, text, pos)
         IN  IF m.alt = 0 THEN FindIter(regex, text, pos + 1)
             ELSE <<m>> \o FindIter(regex, text, m.b[Len(m.b)])

\* match.start(), and the lexemes element k of a match with boundaries b spans.
MatchStart(m) == m.b[1]
Span(text, b, k) == SubSeq(text, b[k], b[k + 1] - 1)

\* content[:p].count('\n') + 1
LineAt(text, p) == 1 + Cardinality({i \in 1..(p - 1) : text[i] = NL})


(***************************************************************************)
(* The structural extractor (code_analyzer.py).                             *)
(***************************************************************************)
\* The extension -> language table of CodeAnalyzer.__init__.
supported_extensions ==
    [e \in {".java", ".cpp", ".c", ".rs", ".go", ".php", ".rb"} |->
        CASE e = ".java" -> "java"
          [] e = ".cpp" -> "cpp"
          [] e = ".c" -> "c"
          [] e = ".rs" -> "rust"
          [] e = ".go" -> "go"
          [] e = ".php" -> "php"
          [] e = ".rb" -> "ruby"]

\* The leading and trailing white space of a lexeme sequence removed.
RECURSIVE Strip(_)
Strip(toks) ==
    IF toks = <<>> THEN <<>>
    ELSE IF Head(toks) \in Space THEN Strip(Tail(toks))
    ELSE IF toks[Len(toks)] \in Space THEN Strip(SubSeq(toks, 1, Len(toks) - 1))
    ELSE toks

\* str.split(','): the segments between the commas, at least one.
RECURSIVE SplitOn(_, _, _)
SplitOn(toks, sep, cur) ==
    IF toks = <<>> THEN <<cur>>
    ELSE IF Head(toks) = sep THEN <<cur>> \o SplitOn(Tail(toks), sep, <<>>)
    ELSE SplitOn(Tail(toks), sep, Append(cur, Head(toks)))

\* [arg.strip() for arg in group.split(',') if arg.strip()]
ArgList(toks) ==
    LET segs == SplitOn(toks, ",", <<>>)
        kept == SelectSeq(segs, LAMBDA s : Strip(s) # <<>>)
    IN  [i \in 1..Len(kept) |-> Join(Strip(kept[i]))]

FunctionRecord(name, line, args, doc, type) ==
    [name |-> name, line |-> line, args |-> args, docstring |-> doc, type |-> type]

\* One record per match of regex: the name is element nameAt of the match,
\* the argument list element argsAt (0: none).
RegexFunctions(regex, text, nameAt, argsAt, type) ==
    LET ms == FindIter(regex, text, 1)
    IN  [i \in 1..Len(ms) |->
            FunctionRecord(Join(Span(text, ms[i].b, nameAt)),
                           LineAt(text, MatchStart(ms[i])),
                           IF argsAt = 0 THEN <<>>
                           ELSE ArgList(Span(text, ms[i].b, argsAt)),
                           "", type)]

\* def\s+(\w+)\s*\(([^)]*)\)
PyDefPattern ==
    <<Lit({"def"}), Ws("+"), Word, Ws("*"), Lit({"("}), NotRP, Lit({")"})>>

_extract_python_functions_regex(text) ==
    RegexFunctions(<<PyDefPattern>>, text, 3, 6, "function")

\* The four patterns of _extract_javascript_functions, in order.
JsPatterns ==
    << <<Lit({"function"}), Ws("+"), Word, Ws("*"), Lit({"("}), NotRP, Lit({")"})>>,
       <<Lit({"const"}), Ws("+"), Word, Ws("*"), Lit({"="}), Ws("*"),
         Lit({"("}), NotRP, Lit({")"}), Ws("*"), Lit({"=>"})>>,
       <<Lit({"let"}), Ws("+"), Word, Ws("*"), Lit({"="}), Ws("*"),
         Lit({"("}), NotRP, Lit({")"}), Ws("*"), Lit({"=>"})>>,
       <<Word, Ws("*"), Lit({"("}), NotRP, Lit({")"}), Ws("*"), Lit({"{"})>> >>

JsNameAt == <<3, 3, 3, 1>>
JsArgsAt == <<6, 8, 8, 4>>

\* Each pattern runs over the whole text; the matches are concatenated.
RECURSIVE JsFrom(_, _)
JsFrom(text, k) ==
    IF k > Len(JsPatterns) THEN <<>>
    ELSE RegexFunctions(<<JsPatterns[k]>>, text, JsNameAt[k], JsArgsAt[k], "function")
         \o JsFrom(text, k + 1)

_extract_javascript_functions(text) == JsFrom(text, 1)

\* (public|private|protected)\s+\w+\s+(\w+)\s*\(([^)]*)\)
JavaPattern ==
    <<Lit({"public", "private", "protected"}), Ws("+"), Word, Ws("+"), Word,
      Ws("*"), Lit({"("}), NotRP, Lit({")"})>>

_extract_java_functions(text) ==
    RegexFunctions(<<JavaPattern>>, text, 5, 8, "method")

\* \w+\s+(\w+)\s*\(([^)]*)\)
CppPattern ==
    <<Word, Ws("+"), Word, Ws("*"), Lit({"("}), NotRP, Lit({")"})>>

_extract_cpp_functions(text) ==
    RegexFunctions(<<CppPattern>>, text, 3, 6, "function")

\* def\s+(\w+)|function\s+(\w+)|fn\s+(\w+)|fun\s+(\w+)
GenericRegex ==
    << <<Lit({"def"}), Ws("+"), Word>>, <<Lit({"function"}), Ws("+"), Word>>,
       <<Lit({"fn"}), Ws("+"), Word>>, <<Lit({"fun"}), Ws("+"), Word>> >>

_extract_generic_functions(text, extension) ==
    RegexFunctions(GenericRegex, text, 3, 0, "function")

\* class\s+(\w+), whatever the extension
ClassPattern == <<Lit({"class"}), Ws("+"), Word>>

extract_classes(text, extension) ==
    LET ms == FindIter(<<ClassPattern>>, text, 1)
    IN  [i \in 1..Len(ms) |->
            [name |-> Join(Span(text, ms[i].b, 3)),
             line |-> LineAt(text, MatchStart(ms[i]))]]


(***************************************************************************)
(* ast.parse on the statements the texts of the model hold: a module is a   *)
(* sequence of one-line statements, each blank, a comment, a name, a call   *)
(* name(a, b), a string, or a one-line def or class whose body is one of    *)
(* these; any other line is a SyntaxError.                                  *)
(***************************************************************************)
PyKeywords == {"def", "class", "pass"}

IsName(toks) ==
    /\ toks # <<>>
    /\ \A i \in 1..Len(toks) : IsWord(toks[i])
    /\ Join(toks) \notin PyKeywords

\* a, b, c with an optional trailing comma, or nothing
PyArgsOK(toks) ==
    LET segs == SplitOn(toks, ",", <<>>)
        n == Len(segs)
    IN  /\ \A i \in 1..(n - 1) : IsName(Strip(segs[i]))
        /\ Strip(segs[n]) = <<>> \/ IsName(Strip(segs[n]))

PyCallPattern == <<Word, Ws("*"), Lit({"("}), NotRP, Lit({")"})>>

\* A simple statement: pass, a name, a string or a call (c: the match of
\* the call pattern on the statement t).
PySimpleOf(t, c) ==
    \/ t = <<"pass">>
    \/ IsName(t)
    \/ /\ Len(t) >= 2
       /\ t[1] = "'"
       /\ t[Len(t)] = "'"
       /\ \A i \in 2..(Len(t) - 1) : t[i] \notin {"'", NL}
    \/ /\ c # <<>>
       /\ c[Len(c)] = Len(t) + 1
       /\ IsName(Span(t, c, 1))
       /\ PyArgsOK(Span(t, c, 4))

PySimpleStripped(t) == PySimpleOf(t, MatchFrom(PyCallPattern, 1, t, 1))
PySimple(toks) == PySimpleStripped(Strip(toks))

PyDefHeader == PyDefPattern \o <<Ws("*"), Lit({":"})>>
PyClassHeader == ClassPattern \o <<Ws("*"), Lit({":"})>>

\* The statement on one line: [ok, defs], defs the FunctionDef on it, if any.
PyPlain == [ok |-> TRUE, defs |-> <<>>]
PyBad == [ok |-> FALSE, defs |-> <<>>]

PyDefStatement(line, d, body) ==
    IF IsName(Span(line, d, 3)) /\ PyArgsOK(Span(line, d, 6)) /\ PySimple(body)
    THEN [ok |-> TRUE,
          defs |-> <<[name |-> Join(Span(line, d, 3)),
                      args |-> ArgList(Span(line, d, 6)),
                      doc |-> IF body[1] = "'"
                              THEN Join(Strip(SubSeq(body, 2, Len(body) - 1)))
                              ELSE ""]>>]
    ELSE PyBad

PyClassStatement(line, c) ==
    IF IsName(Span(line, c, 3)) /\ PySimple(SubSeq(line, c[Len(c)], Len(line)))
    THEN PyPlain ELSE PyBad

\* d, c: the matches of the def and class headers at the start of the line.
PyStatementOf(line, d, c) ==
    IF Strip(line) = <<>> THEN PyPlain
    ELSE IF Strip(line)[1] = "#" THEN PyPlain
    ELSE IF line[1] \in Space THEN PyBad
    ELSE IF d # <<>>
    THEN PyDefStatement(line, d, Strip(SubSeq(line, d[Len(d)], Len(line))))
    ELSE IF c # <<>> THEN PyClassStatement(line, c)
    ELSE IF PySimple(line) THEN PyPlain
    ELSE PyBad

PyStatement(line) ==
    PyStatementOf(line, MatchFrom(PyDefHeader, 1, line, 1),
                  MatchFrom(PyClassHeader, 1, line, 1))

\* The FunctionDef nodes of statements i.. in the order ast.walk yields them,
\* each with its lineno.
RECURSIVE DefsFrom(_, _)
DefsFrom(st, i) ==
    IF i > Len(st) THEN <<>>
    ELSE (IF st[i].defs = <<>> THEN <<>>
          ELSE <<FunctionRecord(st[i].defs[1].name, i, st[i].defs[1].args,
                                st[i].defs[1].doc, "function")>>)
         \o DefsFrom(st, i + 1)

ModuleOf(st) ==
    IF \A i \in 1..Len(st) : st[i].ok
    THEN [ok |-> TRUE, defs |-> DefsFrom(st, 1)]
    ELSE [ok |-> FALSE, defs |-> <<>>]

StatementsOf(lines) == [i \in 1..Len(lines) |-> PyStatement(lines[i])]

\* [ok, defs]: ok is FALSE when ast.parse raises.
ast_parse(text) == ModuleOf(StatementsOf(SplitOn(text, NL, <<>>)))

\* A call's outcome: the value returned, or raised = TRUE.
Returned(v) == [raised |-> FALSE, value |-> v]
Raised == [raised |-> TRUE, value |-> <<>>]

\* _extract_python_functions without the except clause.
PythonFunctionsNoFallback(tree) ==
    IF tree.ok THEN Returned(tree.defs) ELSE Raised

_extract_python_functions_no_fallback(text) ==
    PythonFunctionsNoFallback(ast_parse(text))

\* try: ast.parse and walk; except Exception: the regex fallback.
PythonFunctionsOf(tree, text) ==
    IF tree.ok THEN Returned(tree.defs)
    ELSE Returned(_extract_python_functions_regex(text))

_extract_python_functions(text) == PythonFunctionsOf(ast_parse(text), text)

extract_functions(text, extension) ==
    IF extension = ".py" THEN _extract_python_functions(text)
    ELSE IF extension \in {".js", ".ts"}
    THEN Returned(_extract_javascript_functions(text))
    ELSE IF extension = ".java" THEN Returned(_extract_java_functions(text))
    ELSE IF extension \in {".cpp", ".c"} THEN Returned(_extract_cpp_functions(text))
    ELSE Returned(_extract_generic_functions(text, extension))

(***************************************************************************)
(* The texts of the model: up to MaxLines fragments joined by newlines.     *)
(***************************************************************************)
Fragments ==
    { <<>>,
      <<"//", " ", "private">>,
      <<"/*", " ", "note", NL, "*/">>,
      <<"int">>,
      <<"main", "(", "x", ")">>,
      <<"public", " ", "int", " ", "foo", "(", ")">>,
      <<"def", " ", "foo", "(", "x", ",", " ", "y", ")", ":", " ", "'", "doc", "'">>,
      <<"class", " ", "Bar", ":", " ", "pass">>,
      <<"function", " ", "go", "(", ")", " ", "{">>,
      <<"fn", " ", "run", "(", ")">> }

RECURSIVE JoinLines(_)
JoinLines(fs) ==
    IF fs = <<>> THEN <<>>
    ELSE IF Len(fs) = 1 THEN fs[1]
    ELSE fs[1] \o <<NL>> \o JoinLines(Tail(fs))

Texts == {JoinLines(fs) : fs \in UNION {[1..n -> Fragments] : n \in 0..MaxLines}}

Extensions == {".py", ".js", ".java", ".c", ".rs"}


(***************************************************************************)
(* extract_imports: patterns anchored to a line start (re.MULTILINE).       *)
(***************************************************************************)
AtLineStart(text, pos) == pos = 1 \/ text[pos - 1] = NL

RECURSIVE FindAtLineStarts(_, _, _)
FindAtLineStarts(regex, text, pos) ==
    IF pos > Len(text) THEN <<>>
    ELSE LET m == IF AtLineStart(text, pos) THEN MatchAlt(regex, 1, text, pos)
                  ELSE [alt |-> 0, b |-> <<>>]
         IN  IF m.alt = 0 THEN FindAtLineStarts(regex, text, pos + 1)
             ELSE <<m>> \o FindAtLineStarts(regex, text, m.b[Len(m.b)])

\* ^(import|from)\s+(\w+)
PyImportPattern == <<Lit({"import", "from"}), Ws("+"), Word>>
\* ^import\s+.*from\s+['"]([^'"]+)['"]
JsImportPattern ==
    <<Lit({"import"}), Ws("+"), Not({NL}, "*"), Lit({"from"}), Ws("+"),
      Lit({"'", "\""}), Not({"'", "\""}, "+"), Lit({"'", "\""})>>
\* ^import\s+([^;]+);
JavaImportPattern == <<Lit({"import"}), Ws("+"), Not({";"}, "+"), Lit({";"})>>

extract_imports(text, extension) ==
    LET pattern == IF extension = ".py" THEN <<PyImportPattern>>
                   ELSE IF extension \in {".js", ".ts"} THEN <<JsImportPattern>>
                   ELSE IF extension = ".java" THEN <<JavaImportPattern>>
                   ELSE <<>>
        ms == FindAtLineStarts(pattern, text, 1)
    IN  [i \in 1..Len(ms) |->
            Join(Strip(SubSeq(text, ms[i].b[1], ms[i].b[Len(ms[i].b)] - 1)))]

\* len(content.splitlines())
LineCount(text) ==
    IF text = <<>> THEN 0
    ELSE Cardinality({i \in 1..Len(text) : text[i] = NL})
         + (IF text[Len(text)] = NL THEN 0 ELSE 1)

(***************************************************************************)
(* The directory walker (CodeAnalyzer.analyze_directory, analyze_file).     *)
(* A tree is a set of files [name, suffix, content, readable] directly      *)
(* under the root (is_file() holds of each); readable = FALSE is a file     *)
(* whose open() raises.                                                     *)
(***************************************************************************)
MaxTreeFiles == 2

ProjectName == "proj"

FileNames == {"a.py", "b.java", "c.c", "d.rs", "e.txt"}

SuffixOf(name) ==
    CASE name = "a.py" -> ".py"
      [] name = "b.java" -> ".java"
      [] name = "c.c" -> ".c"
      [] name = "d.rs" -> ".rs"
      [] name = "e.txt" -> ".txt"

TextA == JoinLines(<< <<"public", " ", "int", " ", "foo", "(", ")">>,
                      <<"class", " ", "Bar", ":", " ", "pass">> >>)
TextB == JoinLines(<< <<"int">>, <<"main", "(", "x", ")">> >>)

SampleTexts == {TextA, TextB}

FileEntries ==
    {[name |-> n, suffix |-> SuffixOf(n), content |-> c, readable |-> r] :
        n \in FileNames, c \in SampleTexts, r \in BOOLEAN}

Trees ==
    {t \in SUBSET FileEntries :
        /\ Cardinality(t) <= MaxTreeFiles
        /\ \A f, g \in t : f.name = g.name => f = g}

None == [none |-> TRUE]

\* Lines 55-67: the FileRecord of file f, fn the outcome of extract_functions.
FileRecordOf(f, fn) ==
    IF fn.raised THEN Raised
    ELSE Returned(
        [none |-> FALSE,
         path |-> ProjectName \o "/" \o f.name,
         name |-> f.name,
         extension |-> f.suffix,
         language |-> IF f.suffix \in DOMAIN supported_extensions
                      THEN supported_extensions[f.suffix] ELSE "unknown",
         content |-> f.content,
         functions |-> fn.value,
         classes |-> extract_classes(f.content, f.suffix),
         imports |-> extract_imports(f.content, f.suffix),
         line_count |-> LineCount(f.content)])

\* analyze_file without the try/except around the read.
analyze_file_unguarded(f) ==
    IF ~f.readable THEN Raised
    ELSE FileRecordOf(f, extract_functions(f.content, f.suffix))

\* analyze_file: the FileRecord, None when the read fails
analyze_file(f) ==
    IF ~f.readable THEN Returned(None)
    ELSE FileRecordOf(f, extract_functions(f.content, f.suffix))

NewAnalysis ==
    [project_name |-> ProjectName, files |-> <<>>, total_files |-> 0,
     total_functions |-> 0, total_classes |-> 0, languages_used |-> {}]

\* Fold with total_functions counting files instead of functions.
FoldCountingFiles(a, rec, suffix) ==
    [a EXCEPT !.files = Append(@, rec),
              !.total_files = @ + 1,
              !.total_functions = @ + 1,
              !.total_classes = @ + Len(rec.classes),
              !.languages_used = @ \cup {supported_extensions[suffix]}]

\* Lines 37-41: the record appended and the running totals incremented.
Fold(a, rec, suffix) ==
    [a EXCEPT !.files = Append(@, rec),
              !.total_files = @ + 1,
              !.total_functions = @ + Len(rec.functions),
              !.total_classes = @ + Len(rec.classes),
              !.languages_used = @ \cup {supported_extensions[suffix]}]

Perms(S) ==
    {s \in [1..Cardinality(S) -> S] : \A i, j \in DOMAIN s : i # j => s[i] # s[j]}


(***************************************************************************)
(* The summary projector (LLMManager._create_code_summary).                 *)
(***************************************************************************)
MaxListedFiles == 10
MaxListedFunctions == 5

Take(seq, n) == SubSeq(seq, 1, IF Len(seq) < n THEN Len(seq) ELSE n)

\* _create_code_summary without the [:10] slice.
_create_code_summary_unsliced(code_context) ==
    LET files == code_context.files
    IN  [project |-> code_context.project_name,
         total_files |-> code_context.total_files,
         languages |-> code_context.languages_used,
         total_functions |-> code_context.total_functions,
         total_classes |-> code_context.total_classes,
         listed |-> [i \in 1..Len(files) |->
                        [path |-> files[i].path,
                         functions |->
                            LET fs == Take(files[i].functions, MaxListedFunctions)
                            IN  [j \in 1..Len(fs) |-> fs[j].name]]],
         note |-> IF Len(files) > MaxListedFiles
                  THEN <<Len(files) - MaxListedFiles>> ELSE <<>>]

\* The header lines, one entry per listed file (its path and the function
\* names of its annotation, <<>> when it has none), and the count of the
\* trailing "... and K more files" note (<<>> when there is no note).
_create_code_summary(code_context) ==
    LET files == code_context.files
        first == Take(files, MaxListedFiles)
    IN  [project |-> code_context.project_name,
         total_files |-> code_context.total_files,
         languages |-> code_context.languages_used,
         total_functions |-> code_context.total_functions,
         total_classes |-> code_context.total_classes,
         listed |-> [i \in 1..Len(first) |->
                        [path |-> first[i].path,
                         functions |->
                            LET fs == Take(first[i].functions, MaxListedFunctions)
                            IN  [j \in 1..Len(fs) |-> fs[j].name]]],
         note |-> IF Len(files) > MaxListedFiles
                  THEN <<Len(files) - MaxListedFiles>> ELSE <<>>]

(***************************************************************************)
(* The generation request (LLMManager.generate_documentation).  prev is     *)
(* what reading prev_output.md gives: "missing" (the open fails), "empty",  *)
(* "text", or "undecodable" (the read raises a UnicodeDecodeError, which    *)
(* the except clause of lines 24-26 does not catch).  resp is what the POST *)
(* gives: "ok" (status 200 with a "response" field), "malformed" (status    *)
(* 200, no such field), "status500", or "unreachable".                      *)
(***************************************************************************)
PrevOutputs == {"missing", "empty", "text", "undecodable"}
Responses == {"ok", "malformed", "status500", "unreachable"}

_build_prompt(code_context) ==
    [kind |-> "document", summary |-> _create_code_summary(code_context)]

_build_refinement_prompt(code_context, existing_doc) ==
    [kind |-> "refine", summary |-> _create_code_summary(code_context)]

NoPrompt == [kind |-> "none", summary |-> <<>>]

\* generate_documentation returning the error text instead of raising.
generate_documentation_returning_error(code_context, prev, resp) ==
    [raised |-> FALSE,
     value |-> IF resp = "ok" THEN "documentation" ELSE "Error connecting to LLM",
     sent |-> TRUE,
     prompt |-> _build_prompt(code_context)]

\* [raised, value, sent, prompt]: sent tells whether the POST was made; every
\* failure of the request is re-raised as Exception("Error connecting to LLM").
generate_documentation(code_context, prev, resp) ==
    IF prev = "undecodable"
    THEN [raised |-> TRUE, value |-> "", sent |-> FALSE, prompt |-> NoPrompt]
    ELSE [raised |-> resp # "ok",
          value |-> IF resp = "ok" THEN "documentation" ELSE "",
          sent |-> TRUE,
          prompt |-> IF prev = "text"
                     THEN _build_refinement_prompt(code_context, prev)
                     ELSE _build_prompt(code_context)]

VARIABLES
    rootKind,     \* what the root path names: "dir", "file" or "missing"
    tree,         \* the files under the root
    pc,           \* the position of the run
    pending,      \* the entries rglob has still to yield
    analysis,     \* the ProjectAnalysis being built
    run,          \* 1, or 2 for the second walk over the same tree
    prevFiles,    \* the FileRecords the first walk returned
    printed,      \* the messages printed, in order
    events,       \* "analyse", "request", "write", in the order they happened
    response,     \* what the generation request gave, "none" before it
    prompt,       \* the prompt sent
    documentation,\* the text the generation request returned
    outputFile,   \* the output markdown file
    initialOutput,\* the output markdown file before the run
    retval,       \* what generate_wiki returned, "unset" before it returns
    content,      \* the text given to the extractor
    extension,    \* the extension given to the extractor
    epc,          \* the position of the extraction
    functions,    \* the outcome of extract_functions
    classes,      \* the result of extract_classes
    summary       \* the projected summary

walkVars == <<rootKind, tree, pc, pending, analysis, run, prevFiles>>
wikiVars ==
    <<printed, events, response, prompt, documentation, outputFile, initialOutput,
      retval>>
extractVars == <<content, extension, epc, functions, classes>>
vars == <<walkVars, wikiVars, extractVars, summary>>

FileState(st, doc, n) == [state |-> st, documentation |-> doc, total_files |-> n]

WalkIdle ==
    /\ rootKind = "dir"
    /\ tree = {}
    /\ pc = "idle"
    /\ pending = {}
    /\ analysis = NewAnalysis
    /\ run = 1
    /\ prevFiles = <<>>

WikiIdle ==
    /\ printed = <<>>
    /\ events = <<>>
    /\ response = "none"
    /\ prompt = NoPrompt
    /\ documentation = ""
    /\ outputFile = FileState("absent", "", 0)
    /\ initialOutput = outputFile
    /\ retval = "unset"

ExtractIdle ==
    /\ content = <<>>
    /\ extension = ""
    /\ epc = "idle"
    /\ functions = Returned(<<>>)
    /\ classes = <<>>

(***************************************************************************)
(* The walk: analyze_directory.                                             *)
(***************************************************************************)
\* Path(root).rglob('*') yields nothing unless the root is a directory.
rglob == IF rootKind = "dir" THEN tree ELSE {}

\* Lines 36-41 for the outcome r of analyze_file: [pc, analysis].
Folded(a, r, suffix) ==
    IF r.raised THEN [pc |-> "raised", analysis |-> a]
    ELSE IF r.value.none THEN [pc |-> "walk", analysis |-> a]
    ELSE [pc |-> "walk", analysis |-> Fold(a, r.value, suffix)]

\* One iteration of the loop of lines 33-41, for the entry f that rglob
\* yields next; the file system decides the order.
Visit(f) ==
    /\ pc = "walk"
    /\ f \in pending
    /\ pending' = pending \ {f}
    /\ IF f.suffix \in DOMAIN supported_extensions
       THEN LET o == Folded(analysis, analyze_file(f), f.suffix)
            IN  pc' = o.pc /\ analysis' = o.analysis
       ELSE UNCHANGED <<pc, analysis>>
    /\ UNCHANGED <<rootKind, tree, run, prevFiles, wikiVars, extractVars, summary>>

\* Lines 43-44: languages_used becomes a list, in the set's iteration order.
WalkReturn ==
    /\ pc = "walk"
    /\ pending = {}
    /\ \E order \in Perms(analysis.languages_used) :
          analysis' = [analysis EXCEPT !.languages_used = order]
    /\ pc' = "walked"
    /\ UNCHANGED <<rootKind, tree, pending, run, prevFiles>>
    /\ UNCHANGED <<wikiVars, extractVars, summary>>

\* analyze_directory is called again on the unchanged tree.
Rerun ==
    /\ pc = "walked"
    /\ run = 1
    /\ run' = 2
    /\ prevFiles' = analysis.files
    /\ analysis' = NewAnalysis
    /\ pending' = rglob
    /\ pc' = "walk"
    /\ UNCHANGED <<rootKind, tree, wikiVars, extractVars, summary>>

InitWalk ==
    /\ rootKind \in {"dir", "file", "missing"}
    /\ tree \in Trees
    /\ rootKind # "dir" => tree = {}
    /\ pc = "walk"
    /\ pending = rglob
    /\ analysis = NewAnalysis
    /\ run = 1
    /\ prevFiles = <<>>
    /\ WikiIdle
    /\ ExtractIdle
    /\ summary = <<>>

NextWalk ==
    \/ \E f \in pending : Visit(f)
    \/ WalkReturn
    \/ Rerun

SpecWalk == InitWalk /\ [][NextWalk]_vars

(***************************************************************************)
(* The pipeline: main and SimpleCodeWikiGenerator.generate_wiki.            *)
(***************************************************************************)
\* main, lines 115-120, and generate_wiki up to the call of analyze_directory.
Main ==
    /\ pc = "main"
    /\ IF rootKind = "missing"
       THEN /\ printed' = Append(printed, "FolderDoesNotExist")
            /\ pc' = "done"
            /\ UNCHANGED <<pending, analysis, events>>
       ELSE /\ printed' = Append(printed, "Analyzing")
            /\ events' = Append(events, "analyse")
            /\ pending' = rglob
            /\ analysis' = NewAnalysis
            /\ pc' = "walk"
    /\ UNCHANGED <<rootKind, tree, run, prevFiles, response, prompt, documentation,
                   outputFile, initialOutput, retval, extractVars, summary>>

\* generate_wiki, lines 26-38.
CheckFiles ==
    /\ pc = "walked"
    /\ IF analysis.files = <<>>
       THEN /\ printed' = Append(printed, "NoCodeFiles")
            /\ retval' = "None"
            /\ pc' = "done"
       ELSE /\ printed' = printed \o <<"Found", "Languages", "Generating">>
            /\ pc' = "generate"
            /\ UNCHANGED retval
    /\ UNCHANGED <<rootKind, tree, pending, analysis, run, prevFiles, events,
                   response, prompt, documentation, outputFile, initialOutput,
                   extractVars, summary>>

\* Line 40: the generation request.
Generate ==
    /\ pc = "generate"
    /\ \E prev \in PrevOutputs, resp \in Responses :
          LET r == generate_documentation(analysis, prev, resp)
          IN  /\ prompt' = r.prompt
              /\ response' = IF r.sent THEN resp ELSE response
              /\ events' = IF r.sent THEN Append(events, "request") ELSE events
              /\ documentation' = r.value
              /\ pc' = IF r.raised THEN "except" ELSE "save"
    /\ UNCHANGED <<rootKind, tree, pending, analysis, run, prevFiles, printed,
                   outputFile, initialOutput, retval, extractVars, summary>>

\* Lines 43-45 and _save_wiki: open(output_file, 'w') truncates the file, and
\* either it or the write may fail.  The file holds the documentation and the
\* file count of the header; the timestamp is left out.
SaveOutcomes == {"ok", "open_fails", "write_fails"}

_save_wiki(doc, a, file, io) ==
    IF io = "ok" THEN FileState("written", doc, Len(a.files))
    ELSE IF io = "write_fails" THEN FileState("truncated", "", 0)
    ELSE file

SaveWiki ==
    /\ pc = "save"
    /\ \E io \in SaveOutcomes :
          /\ outputFile' = _save_wiki(documentation, analysis, outputFile, io)
          /\ events' = IF io = "open_fails" THEN events ELSE Append(events, "write")
          /\ IF io = "ok"
             THEN /\ printed' = Append(printed, "Success")
                  /\ retval' = "None"
                  /\ pc' = "done"
             ELSE /\ pc' = "except"
                  /\ UNCHANGED <<printed, retval>>
    /\ UNCHANGED <<rootKind, tree, pending, analysis, run, prevFiles, response,
                   prompt, documentation, initialOutput, extractVars, summary>>

\* Lines 46-49: the handler of the try block; generate_wiki then returns.
Handler ==
    /\ pc = "except"
    /\ printed' = Append(printed, "Failed")
    /\ documentation' = ""
    /\ retval' = "None"
    /\ pc' = "done"
    /\ UNCHANGED <<rootKind, tree, pending, analysis, run, prevFiles, events,
                   response, prompt, outputFile, initialOutput, extractVars, summary>>

Init ==
    /\ rootKind \in {"dir", "file", "missing"}
    /\ tree \in Trees
    /\ rootKind # "dir" => tree = {}
    /\ pc = "main"
    /\ pending = {}
    /\ analysis = NewAnalysis
    /\ run = 1
    /\ prevFiles = <<>>
    /\ printed = <<>>
    /\ events = <<>>
    /\ response = "none"
    /\ prompt = NoPrompt
    /\ documentation = ""
    /\ outputFile \in {FileState("absent", "", 0), FileState("old", "previous", 1)}
    /\ initialOutput = outputFile
    /\ retval = "unset"
    /\ ExtractIdle
    /\ summary = <<>>

Next ==
    \/ Main
    \/ \E f \in pending : Visit(f)
    \/ WalkReturn
    \/ CheckFiles
    \/ Generate
    \/ SaveWiki
    \/ Handler

Spec == Init /\ [][Next]_vars

(***************************************************************************)
(* The extractor on its own: extract_functions and extract_classes applied  *)
(* to every text of the model, as analyze_file applies them.                *)
(***************************************************************************)
InitExtract ==
    /\ content \in Texts
    /\ extension \in Extensions
    /\ epc = "ready"
    /\ functions = Returned(<<>>)
    /\ classes = <<>>
    /\ WalkIdle
    /\ WikiIdle
    /\ summary = <<>>

ExtractFunctions ==
    /\ epc = "ready"
    /\ functions' = extract_functions(content, extension)
    /\ epc' = "functions"
    /\ UNCHANGED <<content, extension, classes, walkVars, wikiVars, summary>>

ExtractClasses ==
    /\ epc = "functions"
    /\ ~functions.raised
    /\ classes' = extract_classes(content, extension)
    /\ epc' = "done"
    /\ UNCHANGED <<content, extension, functions, walkVars, wikiVars, summary>>

NextExtract == ExtractFunctions \/ ExtractClasses

SpecExtract == InitExtract /\ [][NextExtract]_vars

(***************************************************************************)
(* The projector on its own, on analyses of up to MaxSummaryFiles files:    *)
(* file i holds (i + k) % (MaxFunctions + 1) functions.                     *)
(***************************************************************************)
MaxSummaryFiles == 12
MaxFunctions == 6

SummaryFile(i, k) ==
    [none |-> FALSE,
     path |-> ProjectName \o "/f" \o ToString(i) \o ".java",
     name |-> "f" \o ToString(i) \o ".java",
     extension |-> ".java",
     language |-> "java",
     content |-> <<>>,
     functions |-> [j \in 1..((i + k) % (MaxFunctions + 1)) |->
                       FunctionRecord("m" \o ToString(j), j, <<>>, "", "method")],
     classes |-> <<>>,
     imports |-> <<>>,
     line_count |-> 0]

RECURSIVE FoldAll(_, _)
FoldAll(a, recs) ==
    IF recs = <<>> THEN a
    ELSE FoldAll(Fold(a, Head(recs), Head(recs).extension), Tail(recs))

SummaryInput(n, k) ==
    LET a == FoldAll(NewAnalysis, [i \in 1..n |-> SummaryFile(i, k)])
    IN  [a EXCEPT !.languages_used = IF n = 0 THEN <<>> ELSE <<"java">>]

InitSummary ==
    /\ \E n \in 0..MaxSummaryFiles, k \in 0..MaxFunctions :
          analysis = SummaryInput(n, k)
    /\ rootKind = "dir"
    /\ tree = {}
    /\ pc = "summary"
    /\ pending = {}
    /\ run = 1
    /\ prevFiles = <<>>
    /\ WikiIdle
    /\ ExtractIdle
    /\ summary = <<>>

CreateSummary ==
    /\ pc = "summary"
    /\ summary' = _create_code_summary(analysis)
    /\ pc' = "summarised"
    /\ UNCHANGED <<rootKind, tree, pending, analysis, run, prevFiles, wikiVars,
                   extractVars>>

NextSummary == CreateSummary

SpecSummary == InitSummary /\ [][NextSummary]_vars

(***************************************************************************)
(* The claims.                                                              *)
(***************************************************************************)
RECURSIVE SumFunctions(_)
SumFunctions(files) ==
    IF files = <<>> THEN 0 ELSE Len(Head(files).functions) + SumFunctions(Tail(files))

RECURSIVE SumClasses(_)
SumClasses(files) ==
    IF files = <<>> THEN 0 ELSE Len(Head(files).classes) + SumClasses(Tail(files))

Range(seq) == {seq[i] : i \in DOMAIN seq}

\* C1: at every point of the walk and in the analysis returned,
\* total_functions is the sum of len(file.functions) over files,
\* total_classes the sum of len(file.classes), and total_files the number of
\* FileRecords in files.
C1_TotalsMatchFiles ==
    /\ analysis.total_functions = SumFunctions(analysis.files)
    /\ analysis.total_classes = SumClasses(analysis.files)
    /\ analysis.total_files = Len(analysis.files)

C1_Witness ==
    /\ pc = "walked"
    /\ Len(analysis.files) = 2
    /\ analysis.total_functions = 2
    /\ analysis.total_classes = 1

\* The eligible files of the tree whose read succeeds.
Readable == {f \in rglob : f.suffix \in DOMAIN supported_extensions /\ f.readable}
Unreadable == {f \in rglob : f.suffix \in DOMAIN supported_extensions /\ ~f.readable}

RECURSIVE FunctionsIn(_)
FunctionsIn(fs) ==
    IF fs = {} THEN 0
    ELSE LET f == CHOOSE f \in fs : TRUE
         IN  Len(extract_functions(f.content, f.suffix).value) + FunctionsIn(fs \ {f})

RECURSIVE ClassesIn(_)
ClassesIn(fs) ==
    IF fs = {} THEN 0
    ELSE LET f == CHOOSE f \in fs : TRUE
         IN  Len(extract_classes(f.content, f.suffix)) + ClassesIn(fs \ {f})

\* C2: a file whose read fails produces no FileRecord, the walk never raises
\* and goes on, and the analysis returned holds exactly the successfully read
\* files: their records, their count, their functions, classes and languages.
C2_UnreadableSkipped ==
    /\ pc # "raised"
    /\ \A i \in DOMAIN analysis.files :
          \A f \in Unreadable : analysis.files[i].name # f.name
    /\ pc = "walked" =>
          /\ {analysis.files[i].name : i \in DOMAIN analysis.files}
                = {f.name : f \in Readable}
          /\ analysis.total_files = Cardinality(Readable)
          /\ analysis.total_functions = FunctionsIn(Readable)
          /\ analysis.total_classes = ClassesIn(Readable)
          /\ Range(analysis.languages_used)
                = {supported_extensions[f.suffix] : f \in Readable}

C2_Witness ==
    /\ pc = "walked"
    /\ Unreadable # {}
    /\ Len(analysis.files) = 1
    /\ analysis.total_functions = 1

\* The outcome of a run on an existing directory with no eligible file.
EmptyDirectoryOutcome == [printed |-> <<"Analyzing", "NoCodeFiles">>, retval |-> "None"]

\* C3: a root that does not exist or is not a directory never gives the
\* caller the outcome an existing directory without eligible files gives.
C3_RootFailureDistinct ==
    (pc = "done" /\ rootKind # "dir") =>
        [printed |-> printed, retval |-> retval] # EmptyDirectoryOutcome

\* The value generate_wiki returns when no file is eligible (line 28).
EmptyResultSignal == "None"

\* C4: the value generate_wiki returns when the walk produced FileRecords
\* (generation succeeded or failed) differs from the value it returns when no
\* file was eligible.
C4_EmptySignalDistinct ==
    (pc = "done" /\ retval # "unset" /\ analysis.files # <<>>) =>
        retval # EmptyResultSignal

\* The extensions extract_functions has a dedicated strategy for (lines 71-78).
DedicatedExtensions == {".py", ".js", ".ts", ".java", ".cpp", ".c"}

\* C5: a readable file whose extension has a dedicated extraction strategy
\* is never skipped by the walk: the analysis returned holds its FileRecord.
C5_DedicatedExtensionsWalked ==
    pc = "walked" =>
        \A f \in rglob :
            (f.suffix \in DedicatedExtensions /\ f.readable) =>
                \E i \in DOMAIN analysis.files : analysis.files[i].name = f.name

\* C6: the summary lists the first min(F, 10) files in order, each with its
\* first min(5, n) function names, and holds the "more files" note exactly
\* when F > 10, with the count F - 10.
C6_SummaryBounded ==
    pc = "summarised" =>
        LET files == analysis.files
            F == Len(files)
        IN  /\ Len(summary.listed) = (IF F < 10 THEN F ELSE 10)
            /\ \A i \in DOMAIN summary.listed :
                  LET n == Len(files[i].functions)
                      names == summary.listed[i].functions
                  IN  /\ summary.listed[i].path = files[i].path
                      /\ Len(names) = (IF n < 5 THEN n ELSE 5)
                      /\ \A j \in DOMAIN names : names[j] = files[i].functions[j].name
            /\ (summary.note # <<>>) <=> (F > 10)
            /\ F > 10 => summary.note = <<F - 10>>

C6_Witness ==
    /\ pc = "summarised"
    /\ Len(analysis.files) = 12
    /\ Len(summary.listed) = 10
    /\ summary.note = <<2>>
    /\ \E i \in DOMAIN summary.listed :
          Len(analysis.files[i].functions) = 6 /\ Len(summary.listed[i].functions) = 5

DefFragment ==
    <<"def", " ", "foo", "(", "x", ",", " ", "y", ")", ":", " ", "'", "doc", "'">>

\* The lines of text that hold the def fragment.
DefLines(text) ==
    LET lines == SplitOn(text, NL, <<>>)
    IN  {k \in DOMAIN lines : lines[k] = DefFragment}

\* C7: on Python text extract_functions never raises; when the parse
\* succeeds it returns the FunctionDef records of the tree, when it fails
\* exactly the matches of the regex fallback on the same text; either way a
\* line `def foo(x, y): 'doc'` at line k gives a record foo at line k.
C7_FallbackOnParseFailure ==
    (epc # "ready" /\ extension = ".py") =>
        /\ ~functions.raised
        /\ IF ast_parse(content).ok
           THEN functions.value = ast_parse(content).defs
           ELSE functions.value = _extract_python_functions_regex(content)
        /\ \A k \in DefLines(content) :
              \E i \in DOMAIN functions.value :
                  /\ functions.value[i].name = "foo"
                  /\ functions.value[i].line = k
                  /\ functions.value[i].args = <<"x", "y">>

C7_Witness ==
    /\ epc = "done"
    /\ extension = ".py"
    /\ ~ast_parse(content).ok
    /\ 2 \in DefLines(content)
    /\ Len(functions.value) = 1
    /\ functions.value[1].docstring = ""

\* The pattern of a regex path and the element of it that is the name.
RegexOf(ext) ==
    IF ext = ".java" THEN <<JavaPattern>>
    ELSE IF ext \in {".cpp", ".c"} THEN <<CppPattern>>
    ELSE GenericRegex

NameAtOf(ext) == IF ext = ".java" THEN 5 ELSE 3

\* C8: every record of a regex path (Java, C/C++, generic, classes) reports
\* the line on which the declaration's name stands.
C8_LineOfDeclaration ==
    (epc = "done" /\ extension \in {".java", ".c", ".rs"}) =>
        LET ms == FindIter(RegexOf(extension), content, 1)
            cs == FindIter(<<ClassPattern>>, content, 1)
        IN  /\ Len(functions.value) = Len(ms)
            /\ \A i \in DOMAIN ms :
                  functions.value[i].line
                     = LineAt(content, ms[i].b[NameAtOf(extension)])
            /\ Len(classes) = Len(cs)
            /\ \A i \in DOMAIN cs : classes[i].line = LineAt(content, cs[i].b[3])

\* C9: a second analyze_directory over the unchanged tree returns the same
\* FileRecords in the same order as the first.
C9_RerunIdentical ==
    (run = 2 /\ pc = "walked") => analysis.files = prevFiles

IsPrefix(p, q) == Len(p) <= Len(q) /\ p = SubSeq(q, 1, Len(p))

\* C10: analyse, request and write happen in this order; the output file is
\* changed only after a non-empty analysis and a successful request; an
\* empty analysis sends no request and writes nothing; a failed request
\* leaves the output file as it was and no exception escapes generate_wiki.
C10_WriteAfterGeneration ==
    /\ IsPrefix(events, <<"analyse", "request", "write">>)
    /\ outputFile # initialOutput =>
          /\ analysis.files # <<>>
          /\ response = "ok"
          /\ events = <<"analyse", "request", "write">>
    /\ (pc = "done" /\ rootKind # "missing" /\ analysis.files = <<>>) =>
          /\ response = "none"
          /\ events = <<"analyse">>
          /\ outputFile = initialOutput
    /\ response \notin {"none", "ok"} =>
          /\ outputFile = initialOutput
          /\ "write" \notin Range(events)
          /\ pc \in {"except", "done"}
          /\ pc = "done" => retval = "None"

C10_Witness ==
    /\ pc = "done"
    /\ response = "status500"
    /\ initialOutput.state = "old"
    /\ outputFile = initialOutput
    /\ printed[Len(printed)] = "Failed"
====
